---- MODULE Spec2Model ----
(***************************************************************************)
(* Row-Col-Game: the board (board_manager.py), the four move-selection     *)
(* strategies (strategies.py) and the turn loop of start_game              *)
(* (game_engine.py), as a state machine.                                   *)
(*                                                                         *)
(* Python's None is the empty tuple <<>>; an optional value x is x itself  *)
(* when it is a tuple (a position <<r, c>>, a ranking key) and <<x>> when  *)
(* it is a number (a cell value), so that None never equals a value.       *)
(***************************************************************************)
EXTENDS Integers, Sequences, FiniteSets, TLC

VARIABLES
    config,            \* start_game: the GameConfig it is called with
    size,              \* BoardManager.size
    board,             \* BoardManager.board: [position -> None or <<value>>]
    last_removed_pos,  \* BoardManager.last_removed_pos
    mode,              \* start_game: mode
    ctrl_A,            \* start_game: ctrl_A = <<ptype, strategy name or "None">>
    ctrl_B,            \* start_game: ctrl_B
    a_score,           \* start_game: a_score
    b_score,           \* start_game: b_score
    round_num,         \* start_game: round_num
    last_pos,          \* start_game: last_pos
    current,           \* start_game: current
    move,              \* start_game: move (the position about to be executed)
    val_now,           \* start_game: val_now (value returned by remove_and_get)
    winner,            \* start_game: winner of the summary
    pc,                \* position in start_game
    err,               \* exception that left start_game, "None" if none
    call,              \* board driver: the operation called last, "" in a game
    grid0,             \* history: the grid as constructed
    taken,             \* history: which side removed each cell ("" = nobody)
    msg,               \* start_game: what the last prompt of the human branch
                       \* printed about its input, "" if it printed nothing
    state              \* main: the state dict of the configuration menu, None
                       \* outside the menu

vars == <<config, size, board, last_removed_pos, mode, ctrl_A, ctrl_B, a_score, b_score,
          round_num, last_pos, current, move, val_now, winner, pc, err, call, grid0, taken,
          msg, state>>

None == <<>>

----------------------------------------------------------------------------
(* Bounds of the model *)

\* seeds 0..MaxSeed are the seeded random boards that are explored
MaxSeed == 0

\* board sizes that are explored (a 4x4 human game is beyond exhaustive search)
Sizes == 0..3

\* a human types 1-indexed coordinates from 0 to size + RawMargin
RawMargin == 1

----------------------------------------------------------------------------
(* board_manager.py *)

\* all positions of a size x size grid
Positions(sz) == {<<r, c>> : r \in 0..(sz - 1), c \in 0..(sz - 1)}

\* the nested loops "for r in range(size): for c in range(size)": row-major order
RowMajor(sz) == [i \in 1..(sz * sz) |-> <<(i - 1) \div sz, (i - 1) % sz>>]

\* random.Random(seed).randint(1, 9): the generator is the Python library's, not
\* the repository's; it is stood in for by a fixed deterministic stream per seed.
RandLo == 1
RandHi == 9
LcgNext(x) == (x * 13 + 7) % 32
RECURSIVE LcgState(_, _)
LcgState(seed, i) == IF i = 0 THEN LcgNext(seed + 5) ELSE LcgNext(LcgState(seed, i - 1))
\* randint(0, 9) in the place of randint(1, 9)
RandInt_from_zero(seed, i) == LcgState(seed, i) % (RandHi + 1)

RandInt(seed, i) == RandLo + (LcgState(seed, i) % (RandHi - RandLo + 1))

\* _init_board that rejects a preset only when it is too short
init_board_accepts_longer(sz, seed, preset_board) ==
    IF preset_board # None
    THEN LET preset == preset_board[1]
             expected == sz * sz
         IN IF Len(preset) < expected
            THEN [err |-> "ValueError", board |-> None]
            ELSE [err |-> "None",
                  board |-> [p \in Positions(sz) |-> <<preset[p[1] * sz + p[2] + 1]>>]]
    ELSE [err |-> "None",
          board |-> [p \in Positions(sz) |-> <<RandInt(seed[1], p[1] * sz + p[2])>>]]

\* BoardManager.__init__ and _init_board: [err, board]; the preset is <<list>> or
\* None, the seed is <<number>> (an unseeded generator is not explored)
init_board(sz, seed, preset_board) ==
    IF preset_board # None
    THEN LET preset == preset_board[1]
             expected == sz * sz
         IN IF Len(preset) # expected
            THEN [err |-> "ValueError", board |-> None]
            ELSE [err |-> "None",
                  board |-> [p \in Positions(sz) |-> <<preset[p[1] * sz + p[2] + 1]>>]]
    ELSE [err |-> "None",
          board |-> [p \in Positions(sz) |-> <<RandInt(seed[1], p[1] * sz + p[2])>>]]

in_bounds(sz, pos) ==
    /\ 0 <= pos[1] /\ pos[1] < sz
    /\ 0 <= pos[2] /\ pos[2] < sz

is_available(sz, b, pos) == in_bounds(sz, pos) /\ b[pos] # None

get_value(b, pos) == b[pos]

\* "board.get_value(p) or 0"
OrZero(cell) == IF cell = None THEN 0 ELSE cell[1]

\* remove_and_get that forgets to record the removal as the latest one
remove_and_get_no_record(sz, b, lrp, pos) ==
    IF ~is_available(sz, b, pos)
    THEN [err |-> "ValueError", board |-> b, last_removed_pos |-> lrp, val |-> None]
    ELSE [err |-> "None",
          board |-> [b EXCEPT ![pos] = None],
          last_removed_pos |-> lrp,
          val |-> <<b[pos][1]>>]

\* remove_and_get that returns the value and leaves it in the cell
remove_and_get_keep_cell(sz, b, lrp, pos) ==
    IF ~is_available(sz, b, pos)
    THEN [err |-> "ValueError", board |-> b, last_removed_pos |-> lrp, val |-> None]
    ELSE [err |-> "None",
          board |-> b,
          last_removed_pos |-> pos,
          val |-> <<b[pos][1]>>]

\* remove_and_get that records the position with row and column exchanged
remove_and_get_record_transposed(sz, b, lrp, pos) ==
    IF ~is_available(sz, b, pos)
    THEN [err |-> "ValueError", board |-> b, last_removed_pos |-> lrp, val |-> None]
    ELSE [err |-> "None",
          board |-> [b EXCEPT ![pos] = None],
          last_removed_pos |-> <<pos[2], pos[1]>>,
          val |-> <<b[pos][1]>>]

\* remove_and_get that records the position before it checks availability
remove_and_get_record_first(sz, b, lrp, pos) ==
    IF ~is_available(sz, b, pos)
    THEN [err |-> "ValueError", board |-> b, last_removed_pos |-> pos, val |-> None]
    ELSE [err |-> "None",
          board |-> [b EXCEPT ![pos] = None],
          last_removed_pos |-> pos,
          val |-> <<b[pos][1]>>]

\* BoardManager.remove_and_get: [err, board, last_removed_pos, val]
remove_and_get(sz, b, lrp, pos) ==
    IF ~is_available(sz, b, pos)
    THEN [err |-> "ValueError", board |-> b, last_removed_pos |-> lrp, val |-> None]
    ELSE [err |-> "None",
          board |-> [b EXCEPT ![pos] = None],
          last_removed_pos |-> pos,
          val |-> <<b[pos][1]>>]

any_available(sz, b) == \E p \in Positions(sz) : b[p] # None

get_all_available_positions(sz, b) ==
    SelectSeq(RowMajor(sz), LAMBDA p : b[p] # None)

\* get_allowed_positions with its two loops in the other order
get_allowed_positions_col_first(sz, b, lp) ==
    LET r0 == lp[1]
        c0 == lp[2]
        row == SelectSeq([i \in 1..sz |-> <<r0, i - 1>>], LAMBDA p : b[p] # None)
        col == SelectSeq([i \in 1..sz |-> <<i - 1, c0>>],
                         LAMBDA p : p[1] # r0 /\ b[p] # None)
    IN col \o row

\* get_allowed_positions without its column loop
get_allowed_positions_row_only(sz, b, lp) ==
    LET r0 == lp[1]
    IN SelectSeq([i \in 1..sz |-> <<r0, i - 1>>], LAMBDA p : b[p] # None)

\* get_allowed_positions whose column loop omits the "is not None" test
get_allowed_positions_any_col(sz, b, lp) ==
    LET r0 == lp[1]
        c0 == lp[2]
        row == SelectSeq([i \in 1..sz |-> <<r0, i - 1>>], LAMBDA p : b[p] # None)
        col == SelectSeq([i \in 1..sz |-> <<i - 1, c0>>], LAMBDA p : p[1] # r0)
    IN row \o col

get_allowed_positions(sz, b, lp) ==
    LET r0 == lp[1]
        c0 == lp[2]
        row == SelectSeq([i \in 1..sz |-> <<r0, i - 1>>], LAMBDA p : b[p] # None)
        col == SelectSeq([i \in 1..sz |-> <<i - 1, c0>>],
                         LAMBDA p : p[1] # r0 /\ b[p] # None)
    IN row \o col

\* BoardManager.max_remaining_value: the loop keeps the largest value above 0
max_remaining_value(sz, b) ==
    LET cells == RowMajor(sz)
        scan[i \in 0..Len(cells)] ==
            IF i = 0 THEN 0
            ELSE LET val == b[cells[i]]
                 IN IF val # None /\ val[1] > scan[i - 1] THEN val[1] ELSE scan[i - 1]
    IN scan[Len(cells)]

----------------------------------------------------------------------------
(* strategies.py *)

\* the comparison k1 >= k2 in the place of k1 > k2
RECURSIVE TupleGE(_, _)
TupleGE(k1, k2) ==
    IF k1 = <<>> \/ k2 = <<>> THEN Len(k1) >= Len(k2)
    ELSE IF k1[1] # k2[1] THEN k1[1] > k2[1]
    ELSE TupleGE(Tail(k1), Tail(k2))

\* Python's tuple comparison k1 > k2 for tuples of equal length: lexicographic
RECURSIVE TupleGT(_, _)
TupleGT(k1, k2) ==
    IF k1 = <<>> \/ k2 = <<>> THEN Len(k1) > Len(k2)
    ELSE IF k1[1] # k2[1] THEN k1[1] > k2[1]
    ELSE TupleGT(Tail(k1), Tail(k2))

\* the candidates of a strategy taken from the whole board whatever last_pos is
allowed_for_whole_board(sz, b, lp) == get_all_available_positions(sz, b)

\* "allowed = (get_all_available_positions() if last_pos is None else
\*             get_allowed_positions(last_pos))", first lines of every strategy
allowed_for(sz, b, lp) ==
    IF lp = None THEN get_all_available_positions(sz, b)
    ELSE get_allowed_positions(sz, b, lp)

\* minimum of a non-empty sequence of integers
MinOf(s) == CHOOSE x \in {s[i] : i \in 1..Len(s)} : \A j \in 1..Len(s) : x <= s[j]

\* strategy_greedy_maximize: lambda p: (board.get_value(p) or 0,)
greedy_metric(sz, b, pos) ==
    [key |-> <<OrZero(get_value(b, pos))>>, board |-> b]

\* strategy_maximize_future_min.metric without "board.board[r][c] = saved"
future_min_metric_no_restore(sz, b, pos) ==
    LET val_now_ == OrZero(get_value(b, pos))
        b1 == [b EXCEPT ![pos] = None]
        opp_options == get_allowed_positions(sz, b1, pos)
        min_opp_val == IF Len(opp_options) > 0
                       THEN MinOf([i \in 1..Len(opp_options) |->
                                      OrZero(get_value(b1, opp_options[i]))])
                       ELSE 0
    IN [key |-> <<val_now_ - min_opp_val, val_now_>>, board |-> b1]

\* strategy_maximize_future_min.metric with max in the place of min
future_min_metric_max(sz, b, pos) ==
    LET val_now_ == OrZero(get_value(b, pos))
        saved == b[pos]
        b1 == [b EXCEPT ![pos] = None]
        opp_options == get_allowed_positions(sz, b1, pos)
        max_opp_val == IF Len(opp_options) > 0
                       THEN 0 - MinOf([i \in 1..Len(opp_options) |->
                                          0 - OrZero(get_value(b1, opp_options[i]))])
                       ELSE 0
        b2 == [b1 EXCEPT ![pos] = saved]
    IN [key |-> <<val_now_ - max_opp_val, val_now_>>, board |-> b2]

\* strategy_maximize_future_min.metric
future_min_metric(sz, b, pos) ==
    LET val_now_ == OrZero(get_value(b, pos))
        saved == b[pos]
        b1 == [b EXCEPT ![pos] = None]
        opp_options == get_allowed_positions(sz, b1, pos)
        min_opp_val == IF Len(opp_options) > 0
                       THEN MinOf([i \in 1..Len(opp_options) |->
                                      OrZero(get_value(b1, opp_options[i]))])
                       ELSE 0
        b2 == [b1 EXCEPT ![pos] = saved]
    IN [key |-> <<val_now_ - min_opp_val, val_now_>>, board |-> b2]

\* strategy_minimize_opponent_options.metric that restores board.board[c][r]
min_options_metric_transposed(sz, b, pos) ==
    LET saved == b[pos]
        b1 == [b EXCEPT ![pos] = None]
        opp_options == get_allowed_positions(sz, b1, pos)
        count == Len(opp_options)
        b2 == [b1 EXCEPT ![<<pos[2], pos[1]>>] = saved]
    IN [key |-> <<0 - count, OrZero(get_value(b2, pos))>>, board |-> b2]

\* strategy_minimize_opponent_options.metric that returns (count, value)
min_options_metric_most(sz, b, pos) ==
    LET saved == b[pos]
        b1 == [b EXCEPT ![pos] = None]
        opp_options == get_allowed_positions(sz, b1, pos)
        count == Len(opp_options)
        b2 == [b1 EXCEPT ![pos] = saved]
    IN [key |-> <<count, OrZero(get_value(b2, pos))>>, board |-> b2]

\* strategy_minimize_opponent_options.metric
min_options_metric(sz, b, pos) ==
    LET saved == b[pos]
        b1 == [b EXCEPT ![pos] = None]
        opp_options == get_allowed_positions(sz, b1, pos)
        count == Len(opp_options)
        b2 == [b1 EXCEPT ![pos] = saved]
    IN [key |-> <<0 - count, OrZero(get_value(b2, pos))>>, board |-> b2]

\* the metric with a flag that is set when the candidate itself holds global_max
high_value_metric_flag_own(sz, b, pos, global_max) ==
    LET saved == b[pos]
        b1 == [b EXCEPT ![pos] = None]
        opp_options == get_allowed_positions(sz, b1, pos)
        top_hits == Cardinality({i \in 1..Len(opp_options) :
                                    OrZero(get_value(b1, opp_options[i])) = global_max})
        contains_global_max == IF OrZero(saved) = global_max THEN 1 ELSE 0
        b2 == [b1 EXCEPT ![pos] = saved]
    IN [key |-> <<0 - contains_global_max, 0 - top_hits, OrZero(get_value(b2, pos))>>,
        board |-> b2]

\* strategy_high_value_preservation.metric, global_max computed by the caller
high_value_metric(sz, b, pos, global_max) ==
    LET saved == b[pos]
        b1 == [b EXCEPT ![pos] = None]
        opp_options == get_allowed_positions(sz, b1, pos)
        top_hits == Cardinality({i \in 1..Len(opp_options) :
                                    OrZero(get_value(b1, opp_options[i])) = global_max})
        contains_global_max == IF top_hits > 0 THEN 1 ELSE 0
        b2 == [b1 EXCEPT ![pos] = saved]
    IN [key |-> <<0 - contains_global_max, 0 - top_hits, OrZero(get_value(b2, pos))>>,
        board |-> b2]

\* the key_fn each strategy hands to _best_by_key
key_fn(name, sz, b, pos, global_max) ==
    CASE name = "Greedy" -> greedy_metric(sz, b, pos)
      [] name = "MaximizeFutureMin" -> future_min_metric(sz, b, pos)
      [] name = "MinimizeOpponentOptions" -> min_options_metric(sz, b, pos)
      [] name = "PreserveHighValues" -> high_value_metric(sz, b, pos, global_max)

\* the loop of _best_by_key (reverse = True) over the candidates; key_fn is the
\* metric closure of the strategy `name`, which maps (board, position) to
\* [key, board]: the closures write to the board while they run, so the board is
\* threaded through the loop. Result: [best_pos, best_key, board].
best_by_key(candidates, name, sz, b0, global_max) ==
    LET loop[i \in 0..Len(candidates)] ==
            IF i = 0 THEN [best_pos |-> None, best_key |-> None, board |-> b0]
            ELSE LET prev == loop[i - 1]
                     pos == candidates[i]
                     k == key_fn(name, sz, prev.board, pos, global_max)
                 IN IF prev.best_key = None
                    THEN [best_pos |-> pos, best_key |-> k.key, board |-> k.board]
                    ELSE IF TupleGT(k.key, prev.best_key)
                    THEN [best_pos |-> pos, best_key |-> k.key, board |-> k.board]
                    ELSE [prev EXCEPT !.board = k.board]
    IN loop[Len(candidates)]

\* STRATEGY_REGISTRY
STRATEGY_REGISTRY == {"Greedy", "MaximizeFutureMin", "MinimizeOpponentOptions",
                      "PreserveHighValues"}

\* get_strategy that falls back to Greedy for a name it does not know
get_strategy_fallback(name) ==
    IF name \notin STRATEGY_REGISTRY
    THEN [err |-> "None", strat |-> "Greedy"]
    ELSE [err |-> "None", strat |-> name]

\* get_strategy: [err, strat]
get_strategy(name) ==
    IF name \notin STRATEGY_REGISTRY
    THEN [err |-> "ValueError", strat |-> "None"]
    ELSE [err |-> "None", strat |-> name]

\* a strategy without "if not allowed: raise": _best_by_key returns None
run_strategy_no_guard(name, sz, b, lp) ==
    LET allowed == allowed_for(sz, b, lp)
        global_max == max_remaining_value(sz, b)
        best == best_by_key(allowed, name, sz, b, global_max)
    IN [err |-> "None", pos |-> best.best_pos, board |-> best.board]

\* a call strat(board, last_pos) of the registered strategy `name`:
\* [err, pos, board], board being the grid the call leaves behind
run_strategy(name, sz, b, lp) ==
    LET allowed == allowed_for(sz, b, lp)
        global_max == max_remaining_value(sz, b)
        best == best_by_key(allowed, name, sz, b, global_max)
    IN IF Len(allowed) = 0
       THEN [err |-> "ValueError", pos |-> None, board |-> b]
       ELSE [err |-> "None", pos |-> best.best_pos, board |-> best.board]

----------------------------------------------------------------------------
(* game_engine.py *)

\* str.upper() on the start-player strings that are explored
Upper(s) == CASE s = "a" -> "A" [] s = "b" -> "B" [] s = "x" -> "X" [] OTHER -> s

\* GameConfig.__init__: start_player = (start_player or "A").upper(), "A" unless A or B
GameConfig(sz, md, a_strat, b_strat, seed, preset_board, start_player) ==
    LET sp == Upper(IF start_player = "" THEN "A" ELSE start_player)
    IN [size |-> sz, mode |-> md, a_strategy |-> a_strat, b_strategy |-> b_strat,
        seed |-> seed, preset_board |-> preset_board,
        start_player |-> IF sp \notin {"A", "B"} THEN "A" ELSE sp]

MODES == {"H_VS_H", "H_VS_C", "C_VS_C"}

\* start_game.controller_for: [err, ctrl]; a strategy that is not set is "None"
controller_for(md, cfg, player) ==
    CASE md = "H_VS_H" -> [err |-> "None", ctrl |-> <<"human", "None">>]
      [] md = "H_VS_C" ->
            IF player = "A" THEN [err |-> "None", ctrl |-> <<"human", "None">>]
            ELSE IF cfg.b_strategy = "None"
                 THEN [err |-> "ValueError", ctrl |-> None]
                 ELSE LET g == get_strategy(cfg.b_strategy)
                      IN [err |-> g.err, ctrl |-> <<"computer", g.strat>>]
      [] md = "C_VS_C" ->
            IF cfg.a_strategy = "None" \/ cfg.b_strategy = "None"
            THEN [err |-> "ValueError", ctrl |-> None]
            ELSE LET g == get_strategy(IF player = "A" THEN cfg.a_strategy
                                       ELSE cfg.b_strategy)
                 IN [err |-> g.err, ctrl |-> <<"computer", g.strat>>]
      [] OTHER -> [err |-> "ValueError", ctrl |-> None]

\* the configurations that are explored: a seeded random board or a preset board
\* (load_config hands over one of the two), and per mode the strategies it reads
Seeds == 0..MaxSeed

\* the BOARD line of config.txt is parsed by int(): any integers, also 0 and
\* negative ones
Presets == {<<1, 2, 3, 4, 5, 6, 7, 8, 9>>, <<5, 5, 5, 5>>, <<0, 3, 3, 1>>,
            <<-1, -2, -1, -4>>, <<7>>, <<>>}

StartPlayers == {"A", "B", "b", "x", ""}

\* show_config_menu, choice "7": TRUE when the configuration is saved, FALSE
\* when _block refuses it; a player whose strategy is not set is Human
save_validation(md, a_strat, b_strat) ==
    LET a_is_human == a_strat = "None"
        b_is_human == b_strat = "None"
    IN CASE md = "H_VS_H" -> a_is_human /\ b_is_human
         [] md = "H_VS_C" -> ~((a_is_human /\ b_is_human) \/ (~a_is_human /\ ~b_is_human))
         [] md = "C_VS_C" -> ~(a_is_human \/ b_is_human)
         [] OTHER -> FALSE

\* strategy names of config.txt that are not keys of the registry
UnknownNames == {"greedy", "Minimax"}

Configs ==
    LET sources == {<<<<sd>>, None>> : sd \in Seeds} \cup {<<None, <<ps>>>> : ps \in Presets}
        players == {<<"H_VS_H", "None", "None">>}
                   \cup {<<"H_VS_C", "None", s>> :
                            s \in STRATEGY_REGISTRY \cup UnknownNames \cup {"None"}}
                   \cup {<<"H_VS_C", "Minimax", "Greedy">>}
                   \cup {<<"H_VS_C", "Greedy", "None">>}
                   \cup {<<"C_VS_C", s, t>> : s \in STRATEGY_REGISTRY, t \in STRATEGY_REGISTRY}
                   \cup {<<"C_VS_C", s, t>> : s \in UnknownNames \cup {"None"},
                                              t \in {"Greedy", "Minimax", "None"}}
                   \cup {<<"C_VS_C", "PreserveHighValues", t>> : t \in UnknownNames}
    IN {GameConfig(sz, pl[1], pl[2], pl[3], src[1], src[2], sp) :
           sz \in Sizes, src \in sources, pl \in players, sp \in StartPlayers}

\* start_game up to the turn loop: the board is built, the mode is validated,
\* the controllers are resolved, then scores, round and first player are set
Init ==
    \E cfg \in Configs :
        LET built == init_board(cfg.size, cfg.seed, cfg.preset_board)
            md == cfg.mode
            cA == controller_for(md, cfg, "A")
            cB == controller_for(md, cfg, "B")
            failure == IF built.err # "None" THEN built.err
                       ELSE IF md \notin MODES THEN "ValueError"
                       ELSE IF cA.err # "None" THEN cA.err
                       ELSE cB.err
        IN /\ config = cfg
           /\ size = cfg.size
           /\ board = built.board
           /\ grid0 = built.board
           /\ last_removed_pos = None
           /\ mode = md
           /\ ctrl_A = IF failure = "None" THEN cA.ctrl ELSE None
           /\ ctrl_B = IF failure = "None" THEN cB.ctrl ELSE None
           /\ a_score = 0
           /\ b_score = 0
           /\ round_num = 0
           /\ last_pos = None
           /\ current = cfg.start_player
           /\ move = None
           /\ val_now = None
           /\ winner = "None"
           /\ call = ""
           /\ err = failure
           /\ pc = IF failure = "None" THEN "loop" ELSE "raised"
           /\ taken = IF built.err = "None" THEN [p \in Positions(cfg.size) |-> ""]
                      ELSE None
           /\ msg = ""
           /\ state = None

\* the turn loop looking at the whole board on every turn
allowed_whole_board == get_all_available_positions(size, board)

\* top of the turn loop: "allowed = all available if last_pos is None, else
\* get_allowed_positions(last_pos)"
allowed == IF last_pos = None THEN get_all_available_positions(size, board)
           ELSE get_allowed_positions(size, board, last_pos)

\* what a human types at a prompt: a line "r,c" or some other text
RawInputs ==
    {[text |-> t, r |-> 0, c |-> 0] : t \in {"menu", "exit", "abc"}}
    \cup {[text |-> "r,c", r |-> r, c |-> c] :
             r \in 0..(size + RawMargin), c \in 0..(size + RawMargin)}

\* _parse_move_input: 1-indexed "r,c" to a 0-indexed position, None on error
parse_move_input(raw) ==
    IF raw.text # "r,c" THEN None ELSE <<raw.r - 1, raw.c - 1>>

\* the checks of the human branch without the row-or-column check
human_check_no_line(sz, b, lp, pos) ==
    IF pos = None THEN "Invalid format"
    ELSE IF ~in_bounds(sz, pos) THEN "Out of bounds"
    ELSE IF ~is_available(sz, b, pos) THEN "Cell already taken"
    ELSE ""

\* the checks of the human branch without the is_available check
human_check_no_avail(sz, b, lp, pos) ==
    IF pos = None THEN "Invalid format"
    ELSE IF ~in_bounds(sz, pos) THEN "Out of bounds"
    ELSE IF lp # None /\ ~(pos[1] = lp[1] \/ pos[2] = lp[2]) THEN "Must choose from same row or column"
    ELSE ""

\* the checks of the human branch, in order: the message printed, "" if accepted
human_check(sz, b, lp, pos) ==
    IF pos = None THEN "Invalid format"
    ELSE IF ~in_bounds(sz, pos) THEN "Out of bounds"
    ELSE IF ~is_available(sz, b, pos) THEN "Cell already taken"
    ELSE IF lp # None /\ ~(pos[1] = lp[1] \/ pos[2] = lp[2]) THEN "Must choose from same row or column"
    ELSE ""

\* the summary with "if a_score >= b_score" as its first test
winner_of_ge(a, b) ==
    IF a >= b THEN "A" ELSE IF b > a THEN "B" ELSE "Tie"

\* "Game over summary": if a_score > b_score: A, elif b_score > a_score: B, else Tie
winner_of(a, b) ==
    IF a > b THEN "A" ELSE IF b > a THEN "B" ELSE "Tie"

\* the turn loop finds no allowed cell: break, the winner is determined
GameOver ==
    /\ pc = "loop"
    /\ Len(allowed) = 0
    /\ winner' = winner_of(a_score, b_score)
    /\ pc' = "over"
    /\ UNCHANGED state
    /\ UNCHANGED <<config, size, board, last_removed_pos, mode, ctrl_A, ctrl_B, a_score, b_score,
                   round_num, last_pos, current, move, val_now, err, call, grid0, taken, msg>>

\* "Press Enter to continue..." through _guarded_input, then the summary is returned
Finish ==
    /\ pc = "over"
    /\ \E raw \in RawInputs :
          pc' = IF raw.text = "menu" THEN "menu"
                ELSE IF raw.text = "exit" THEN "exit" ELSE "returned"
    /\ err' = IF pc' = "menu" THEN "KeyboardInterrupt"
              ELSE IF pc' = "exit" THEN "SystemExit" ELSE err
    /\ UNCHANGED state
    /\ UNCHANGED <<config, size, board, last_removed_pos, mode, ctrl_A, ctrl_B, a_score, b_score,
                   round_num, last_pos, current, move, val_now, winner, call, grid0, taken,
                   msg>>

\* one pass of the prompt loop that prints the message and forgets "continue"
human_branch_no_continue(sz, b, lp, raw) ==
    LET pos == parse_move_input(raw)
    IN [msg |-> human_check(sz, b, lp, pos), move |-> pos]

\* one pass of the prompt loop of the human branch on the input raw: [msg, move],
\* the message printed ("" if none) and the move, None when the pass ends in
\* "continue"
human_branch(sz, b, lp, raw) ==
    LET pos == parse_move_input(raw)
        m == human_check(sz, b, lp, pos)
    IN [msg |-> m, move |-> IF m # "" THEN None ELSE pos]

\* one prompt of the human branch: Menu and Exit leave the game, a rejected
\* input prints its message and prompts again, an accepted one becomes the move
HumanInput ==
    /\ pc = "loop"
    /\ Len(allowed) > 0
    /\ (IF current = "A" THEN ctrl_A ELSE ctrl_B)[1] = "human"
    /\ \E raw \in RawInputs :
          LET res == human_branch(size, board, last_pos, raw)
          IN IF raw.text = "menu"
             THEN /\ pc' = "menu" /\ err' = "KeyboardInterrupt"
                  /\ move' = move /\ msg' = ""
             ELSE IF raw.text = "exit"
             THEN /\ pc' = "exit" /\ err' = "SystemExit"
                  /\ move' = move /\ msg' = ""
             ELSE IF res.move = None
             THEN /\ pc' = pc /\ err' = err /\ move' = move /\ msg' = res.msg
             ELSE /\ pc' = "execute" /\ err' = err
                  /\ move' = res.move /\ msg' = res.msg
    /\ UNCHANGED state
    /\ UNCHANGED <<config, size, board, last_removed_pos, mode, ctrl_A, ctrl_B, a_score, b_score,
                   round_num, last_pos, current, val_now, winner, call, grid0, taken>>

\* the computer branch: "move = strat(board, last_pos)"
ComputerMove ==
    /\ pc = "loop"
    /\ Len(allowed) > 0
    /\ (IF current = "A" THEN ctrl_A ELSE ctrl_B)[1] # "human"
    /\ LET strat == (IF current = "A" THEN ctrl_A ELSE ctrl_B)[2]
           res == run_strategy(strat, size, board, last_pos)
       IN IF strat = "None"
          THEN /\ pc' = "raised" /\ err' = "RuntimeError"
               /\ UNCHANGED <<board, move>>
          ELSE IF res.err # "None"
          THEN /\ pc' = "raised" /\ err' = res.err
               /\ board' = res.board /\ move' = move
          ELSE /\ pc' = "execute" /\ err' = err
               /\ board' = res.board /\ move' = res.pos
    /\ UNCHANGED state
    /\ UNCHANGED <<config, size, last_removed_pos, mode, ctrl_A, ctrl_B, a_score, b_score,
                   round_num, last_pos, current, val_now, winner, call, grid0, taken, msg>>

\* the scores with the mover's score replaced by the value, not increased by it
scores_after_overwrite(a, b, cur, val) ==
    IF cur = "A" THEN <<val, b>> ELSE <<a, val>>

\* the scores with the value credited to the player who is not moving
scores_after_other(a, b, cur, val) ==
    IF cur = "A" THEN <<a, b + val>> ELSE <<a + val, b>>

\* "if current == 'A': a_score += val_now else: b_score += val_now": <<a, b>>
scores_after(a, b, cur, val) ==
    IF cur = "A" THEN <<a + val, b>> ELSE <<a, b + val>>

\* the swap written as 'A' if current == 'A' else 'B'
next_player_same(cur) == IF cur = "A" THEN "A" ELSE "B"

\* "current = 'A' if current == 'B' else 'B'"
next_player(cur) == IF cur = "B" THEN "A" ELSE "B"

\* "Execute move" to the end of the loop body: remove_and_get, the score of the
\* current player, the round, last_pos and the swap of the current player
ExecuteMove ==
    /\ pc = "execute"
    /\ LET res == remove_and_get(size, board, last_removed_pos, move)
       IN IF res.err # "None"
          THEN /\ pc' = "raised" /\ err' = res.err
               /\ UNCHANGED <<board, last_removed_pos, a_score, b_score, round_num,
                              last_pos, current, val_now, taken>>
          ELSE /\ board' = res.board
               /\ last_removed_pos' = res.last_removed_pos
               /\ val_now' = res.val
               /\ a_score' = scores_after(a_score, b_score, current, res.val[1])[1]
               /\ b_score' = scores_after(a_score, b_score, current, res.val[1])[2]
               /\ round_num' = round_num + 1
               /\ last_pos' = move
               /\ current' = next_player(current)
               /\ taken' = [taken EXCEPT ![move] = current]
               /\ pc' = "loop" /\ err' = err
    /\ UNCHANGED state
    /\ UNCHANGED <<config, size, mode, ctrl_A, ctrl_B, move, winner, call, grid0, msg>>

Next == GameOver \/ Finish \/ HumanInput \/ ComputerMove \/ ExecuteMove

Spec == Init /\ [][Next]_vars

----------------------------------------------------------------------------
(* The board and the strategies driven directly, call by call: any position may
   be passed to remove_and_get, so every grid with any cells removed is reached,
   in every order of removal; a strategy is called with no previous move or with
   the last removed position as the previous move. The variables of start_game
   hold the arguments and results of the last call. A call that removed a cell
   is followed by further calls; a failed removal and a strategy call leave the
   board as it was, and the driver stops after them. *)

\* positions passed to remove_and_get: the grid and one step around it
ExtPositions(sz) == {<<r, c>> : r \in (0 - RawMargin)..(sz - 1 + RawMargin),
                               c \in (0 - RawMargin)..(sz - 1 + RawMargin)}

\* a 3x3 preset of negative values whose two largest cells share a row
NegativePreset == <<-1, -1, -5, -5, -5, -2, -5, -5, -5>>

\* the boards the driver constructs: those of the games and the negative one
BoardConfigs ==
    Configs \cup {GameConfig(3, "H_VS_H", "None", "None", None, <<NegativePreset>>, "A")}

InitBoard ==
    \E cfg \in BoardConfigs :
        LET built == init_board(cfg.size, cfg.seed, cfg.preset_board)
        IN /\ built.err = "None"
           /\ cfg.mode = "H_VS_H" /\ cfg.start_player = "A"
           /\ config = cfg
           /\ size = cfg.size
           /\ board = built.board
           /\ grid0 = built.board
           /\ last_removed_pos = None
           /\ mode = cfg.mode
           /\ ctrl_A = None /\ ctrl_B = None
           /\ a_score = 0 /\ b_score = 0 /\ round_num = 0
           /\ last_pos = None
           /\ current = cfg.start_player
           /\ move = None /\ val_now = None
           /\ winner = "None" /\ err = "None" /\ call = "" /\ pc = "driver"
           /\ taken = [p \in Positions(cfg.size) |-> ""]
           /\ msg = ""
           /\ state = None

\* board.remove_and_get(pos)
CallRemove ==
    /\ pc = "driver"
    /\ \E pos \in ExtPositions(size) :
          LET res == remove_and_get(size, board, last_removed_pos, pos)
          IN /\ call' = "remove_and_get"
             /\ move' = pos
             /\ last_pos' = None
             /\ board' = res.board
             /\ last_removed_pos' = res.last_removed_pos
             /\ val_now' = res.val
             /\ err' = res.err
             /\ pc' = IF res.err = "None" THEN "driver" ELSE "called"
    /\ UNCHANGED state
    /\ UNCHANGED <<config, size, mode, ctrl_A, ctrl_B, a_score, b_score, round_num, current,
                   winner, grid0, taken, msg>>

\* get_strategy(name)(board, lp)
CallStrategy ==
    /\ pc = "driver"
    /\ \E name \in STRATEGY_REGISTRY, lp \in {None, last_removed_pos} :
          LET res == run_strategy(get_strategy(name).strat, size, board, lp)
          IN /\ call' = name
             /\ last_pos' = lp
             /\ board' = res.board
             /\ move' = res.pos
             /\ val_now' = None
             /\ err' = res.err
             /\ pc' = "called"
    /\ UNCHANGED state
    /\ UNCHANGED <<config, size, last_removed_pos, mode, ctrl_A, ctrl_B, a_score, b_score,
                   round_num, current, winner, grid0, taken, msg>>

NextBoard == CallRemove \/ CallStrategy

BoardSpec == InitBoard /\ [][NextBoard]_vars

----------------------------------------------------------------------------
(* main.py: the configuration menu. show_config_menu edits the GameConfig that
   load_config returned and the state dict that main filled from config.txt;
   the variables of start_game are not used. Each action is one choice of the
   menu with the submenu it opens, up to the return to the menu. 'Back' at a
   prompt returns to the menu with nothing changed. *)

\* the largest size entered at the prompt of submenu_board_size
MaxMenuSize == 3

\* what is typed at "New size: ": integers, 1 being below the minimum
SizeInputs == 1..MaxMenuSize

\* what is typed at "BOARD= ": lists of integers of any length, and a text
\* that int() refuses (ok = FALSE)
BoardInputs ==
    {[ok |-> TRUE, vals |-> ps] : ps \in Presets \cup {<<1, 2, 3>>}}
    \cup {[ok |-> FALSE, vals |-> <<>>]}

\* what is typed at "Enter seed": None for the empty text
SeedInputs == {None} \cup {<<sd>> : sd \in Seeds}

\* the variables of start_game and of the board
game_vars == <<size, board, last_removed_pos, mode, ctrl_A, ctrl_B, a_score, b_score,
               round_num, last_pos, current, move, val_now, winner, call, grid0, taken>>

\* Python's truth value of state["preset_board_raw"]: None and [] are false
truthy(pb) == pb # None /\ pb[1] # <<>>

\* main, choice "2": state read from config.txt and cfg = load_config(path);
\* BOARD_SOURCE decides which of SEED and BOARD the GameConfig gets. The stored
\* manual board is absent or fits the size.
InitMenu ==
    \E sz \in Sizes, md \in MODES, a \in {"None", "Greedy"}, b \in {"None", "Greedy"},
       src \in {"RANDOM", "MANUAL"}, sd \in SeedInputs,
       pb \in {None} \cup {<<ps>> : ps \in Presets} :
        /\ pb # None => Len(pb[1]) = sz * sz
        /\ state = [board_source |-> src, seed_raw |-> sd, preset_board_raw |-> pb]
        /\ config = GameConfig(sz, md, a, b,
                               IF src = "MANUAL" THEN None ELSE sd,
                               IF src = "MANUAL" THEN pb ELSE None, "A")
        /\ size = 0 /\ board = None /\ grid0 = None /\ taken = None
        /\ last_removed_pos = None /\ mode = "" /\ ctrl_A = None /\ ctrl_B = None
        /\ a_score = 0 /\ b_score = 0 /\ round_num = 0 /\ last_pos = None
        /\ current = "" /\ move = None /\ val_now = None /\ winner = "None"
        /\ call = "" /\ err = "None" /\ msg = "" /\ pc = "config_menu"

\* submenu_board_size that keeps the manual board whatever the new size
board_size_state_keep(st, new_size) == st

\* submenu_board_size, after config.size = new_size: a manual board whose length
\* does not match is cleared and the source becomes RANDOM
board_size_state(st, new_size) ==
    LET pb == st.preset_board_raw
    IN IF truthy(pb) /\ Len(pb[1]) # new_size * new_size
       THEN [st EXCEPT !.preset_board_raw = None, !.board_source = "RANDOM"]
       ELSE st

\* choice "1": submenu_board_size
MenuBoardSize ==
    /\ pc = "config_menu"
    /\ \E new_size \in SizeInputs :
          IF new_size < 2
          THEN /\ msg' = "Size must be >=2" /\ UNCHANGED <<config, state>>
          ELSE /\ config' = [config EXCEPT !.size = new_size]
               /\ state' = board_size_state(state, new_size)
               /\ msg' = IF state' # state THEN "clearing manual BOARD" ELSE ""
    /\ UNCHANGED <<pc, err>>
    /\ UNCHANGED game_vars

\* choice "2": submenu_game_mode
MenuGameMode ==
    /\ pc = "config_menu"
    /\ \E new_mode \in MODES : config' = [config EXCEPT !.mode = new_mode]
    /\ msg' = ""
    /\ UNCHANGED <<state, pc, err>>
    /\ UNCHANGED game_vars

\* choice "3": submenu_strategy_A, "None" for Human
MenuStrategyA ==
    /\ pc = "config_menu"
    /\ \E v \in STRATEGY_REGISTRY \cup {"None"} : config' = [config EXCEPT !.a_strategy = v]
    /\ msg' = ""
    /\ UNCHANGED <<state, pc, err>>
    /\ UNCHANGED game_vars

\* choice "4": submenu_strategy_B, "None" for Human
MenuStrategyB ==
    /\ pc = "config_menu"
    /\ \E v \in STRATEGY_REGISTRY \cup {"None"} : config' = [config EXCEPT !.b_strategy = v]
    /\ msg' = ""
    /\ UNCHANGED <<state, pc, err>>
    /\ UNCHANGED game_vars

\* choice "6": submenu_start_player
MenuStartPlayer ==
    /\ pc = "config_menu"
    /\ \E v \in {"A", "B"} : config' = [config EXCEPT !.start_player = v]
    /\ msg' = ""
    /\ UNCHANGED <<state, pc, err>>
    /\ UNCHANGED game_vars

\* board_presets_menu, choice "1": use RANDOM
MenuRandom ==
    /\ pc = "config_menu"
    /\ state' = [state EXCEPT !.board_source = "RANDOM"]
    /\ msg' = ""
    /\ UNCHANGED <<config, pc, err>>
    /\ UNCHANGED game_vars

\* board_presets_menu, choice "5": clear the manual board
MenuClearBoard ==
    /\ pc = "config_menu"
    /\ state' = [state EXCEPT !.preset_board_raw = None, !.board_source = "RANDOM"]
    /\ msg' = "Manual board cleared"
    /\ UNCHANGED <<config, pc, err>>
    /\ UNCHANGED game_vars

\* board_presets_menu, choice "2": use MANUAL; a board is asked for when none is
\* stored, and a text that int() refuses leaves the menu through main's handler
MenuManual ==
    /\ pc = "config_menu"
    /\ IF truthy(state.preset_board_raw)
       THEN /\ state' = [state EXCEPT !.board_source = "MANUAL"]
            /\ msg' = "" /\ UNCHANGED <<pc, err>>
       ELSE \E raw \in BoardInputs : \A vals \in {raw.vals} :
               IF ~raw.ok
               THEN /\ state' = [state EXCEPT !.board_source = "MANUAL"]
                    /\ pc' = "raised" /\ err' = "ValueError" /\ msg' = ""
               ELSE IF Len(vals) # config.size * config.size
               THEN /\ state' = [state EXCEPT !.board_source = "MANUAL"]
                    /\ msg' = "Invalid length" /\ UNCHANGED <<pc, err>>
               ELSE /\ state' = [state EXCEPT !.board_source = "MANUAL",
                                              !.preset_board_raw = <<vals>>]
                    /\ msg' = "" /\ UNCHANGED <<pc, err>>
    /\ UNCHANGED config
    /\ UNCHANGED game_vars

\* board_presets_menu, choice "3": set or clear the seed
MenuSeed ==
    /\ pc = "config_menu"
    /\ \E sd \in SeedInputs : state' = [state EXCEPT !.seed_raw = sd]
    /\ msg' = ""
    /\ UNCHANGED <<config, pc, err>>
    /\ UNCHANGED game_vars

\* board_presets_menu, choice "4": set the manual board
MenuBoard ==
    /\ pc = "config_menu"
    /\ \E raw \in BoardInputs : \A vals \in {raw.vals} :
          IF ~raw.ok
          THEN /\ msg' = "Invalid BOARD list" /\ UNCHANGED state
          ELSE IF Len(vals) # config.size * config.size
          THEN /\ msg' = "Invalid length" /\ UNCHANGED state
          ELSE /\ state' = [state EXCEPT !.preset_board_raw = <<vals>>,
                                         !.board_source = "MANUAL"]
               /\ msg' = ""
    /\ UNCHANGED <<config, pc, err>>
    /\ UNCHANGED game_vars

\* choice "7": the configuration is saved when the validation accepts it
MenuSave ==
    /\ pc = "config_menu"
    /\ IF save_validation(config.mode, config.a_strategy, config.b_strategy)
       THEN pc' = "saved" /\ msg' = ""
       ELSE pc' = pc /\ msg' = "Cannot save"
    /\ UNCHANGED <<config, state, err>>
    /\ UNCHANGED game_vars

\* choice "8" or 'Back': the menu returns without saving
MenuCancel ==
    /\ pc = "config_menu"
    /\ pc' = "cancelled" /\ msg' = ""
    /\ UNCHANGED <<config, state, err>>
    /\ UNCHANGED game_vars

NextMenu ==
    \/ MenuBoardSize \/ MenuGameMode \/ MenuStrategyA \/ MenuStrategyB
    \/ MenuStartPlayer \/ MenuRandom \/ MenuManual \/ MenuSeed \/ MenuBoard
    \/ MenuClearBoard \/ MenuSave \/ MenuCancel

MenuSpec == InitMenu /\ [][NextMenu]_vars

----------------------------------------------------------------------------
(* Properties *)

\* the elements of a sequence
SeqSet(s) == {s[i] : i \in 1..Len(s)}

\* the legal set as the rule states it: the cells that still hold a value and,
\* after a previous move lp, lie in lp's row or lp's column
LegalSet(sz, b, lp) ==
    {p \in Positions(sz) : b[p] # None /\ (lp = None \/ p[1] = lp[1] \/ p[2] = lp[2])}

\* a strategy was the last call of the board driver
StrategyCalled == pc = "called" /\ call \in STRATEGY_REGISTRY

\* C1: for every board and every previous move the legal set, as the turn loop
\* and as the strategies compute it, is exactly the set of available positions
\* in the previous move's row or column, and the set of all available positions
\* when there is no previous move.
C1_LegalSetExact ==
    /\ SeqSet(allowed) = LegalSet(size, board, last_pos)
    /\ \A lp \in Positions(size) \cup {None} :
          SeqSet(allowed_for(size, board, lp)) = LegalSet(size, board, lp)

\* C1 witness: a strategy was called after a previous move whose row and column
\* hold some but not all of the cells that are left
C1_Witness ==
    /\ StrategyCalled /\ last_pos # None
    /\ Len(allowed) > 0
    /\ Len(allowed) < Len(get_all_available_positions(size, board))

\* C2: a strategy called on a board and previous move (or none) with a non-empty
\* legal set returns, without failing, one position of that legal set.
C2_StrategyPicksLegal ==
    [][(call' \in STRATEGY_REGISTRY /\ LegalSet(size, board, last_pos') # {})
          => /\ err' = "None"
             /\ move' \in LegalSet(size, board, last_pos')]_vars

\* C2 witness: a lookahead strategy returned a position out of at least two,
\* after a previous move
C2_Witness ==
    /\ StrategyCalled /\ call = "PreserveHighValues" /\ last_pos # None
    /\ Cardinality(LegalSet(size, board, last_pos)) >= 2
    /\ move \in LegalSet(size, board, last_pos)

\* C3: a strategy call that returns leaves the board as it was: every cell, and
\* with it the set of available positions, and the last removed position.
C3_StrategyLeavesBoard ==
    [][(call' \in STRATEGY_REGISTRY /\ err' = "None")
          => /\ board' = board
             /\ SeqSet(get_all_available_positions(size, board'))
                   = SeqSet(get_all_available_positions(size, board))
             /\ last_removed_pos' = last_removed_pos]_vars

\* C3 witness: a strategy that simulates removals returned on a board with
\* removed cells and at least two candidates
C3_Witness ==
    /\ StrategyCalled /\ call = "MaximizeFutureMin" /\ err = "None"
    /\ last_removed_pos # None
    /\ Cardinality(LegalSet(size, board, last_pos)) >= 2

\* C4: remove_and_get on an available position returns the value the cell held,
\* leaves the cell removed, records the position as the last removal and leaves
\* every other cell as it was.
C4_RemoveTakes ==
    [][(call' = "remove_and_get" /\ move' \in Positions(size) /\ board[move'] # None)
          => /\ err' = "None"
             /\ val_now' = get_value(board, move')
             /\ board'[move'] = None
             /\ ~is_available(size, board', move')
             /\ last_removed_pos' = move'
             /\ \A p \in Positions(size) \ {move'} : board'[p] = board[p]]_vars

\* C4 witness: a second cell was removed and its value returned
C4_Witness ==
    /\ call = "remove_and_get" /\ err = "None"
    /\ last_removed_pos = move /\ val_now = grid0[move]
    /\ Cardinality({p \in Positions(size) : board[p] = None}) >= 2

\* C5: remove_and_get on a position outside the grid or already removed fails
\* (the ValueError that stands for InvalidMoveError) and changes neither the
\* grid nor the last removed position.
C5_RemoveFails ==
    [][(call' = "remove_and_get" /\ (move' \notin Positions(size) \/ board[move'] = None))
          => /\ err' = "ValueError"
             /\ board' = board
             /\ last_removed_pos' = last_removed_pos]_vars

\* C5 witness: a removal of an already removed cell failed
C5_Witness ==
    /\ call = "remove_and_get" /\ err = "ValueError"
    /\ move \in Positions(size) /\ board[move] = None
    /\ last_removed_pos # None /\ last_removed_pos # move

\* C5 witness of the other case is covered by the same action: a removal
\* outside the grid fails as well
RemoveOutsideFailed ==
    call = "remove_and_get" /\ err = "ValueError" /\ move \notin Positions(size)

----------------------------------------------------------------------------
(* Properties of a game *)

\* start_game got past the construction of the board and of the controllers
Started == ctrl_A # None

\* the turn loop was left through its break: the Terminated state
Terminated == winner # "None"

\* a human typed Menu or Exit at a prompt
Left == pc \in {"menu", "exit"}

Other(player) == IF player = "A" THEN "B" ELSE "A"

Removed == {p \in Positions(size) : board[p] = None}

RECURSIVE SumOver(_, _)
\* the sum of the values that grid g holds on the cells of S
SumOver(g, S) ==
    IF S = {} THEN 0
    ELSE LET p == CHOOSE q \in S : TRUE
         IN g[p][1] + SumOver(g, S \ {p})

\* C6: in every game the move handed to remove_and_get is a cell of the current
\* legal set, in bounds and available, and no error leaves the turn loop.
C6_MoveIsLegal ==
    Started =>
        /\ pc = "execute" =>
              /\ move \in LegalSet(size, board, last_pos)
              /\ in_bounds(size, move)
              /\ is_available(size, board, move)
        /\ pc # "raised"
        /\ err \notin {"ValueError", "RuntimeError"}

\* C6 witness: in a human-versus-computer game a human move, made after a move
\* of the computer, is about to be executed
C6_Witness ==
    /\ pc = "execute" /\ mode = "H_VS_C" /\ current = "A"
    /\ last_pos # None /\ move \in LegalSet(size, board, last_pos)

\* C7 as stated: every game reaches Terminated, so a game whose turn loop has
\* ended has ended in Terminated.
C7_EveryGameTerminates ==
    (Started /\ pc \notin {"loop", "execute"}) => Terminated

\* the number of steps the turn loop can still take, at most
Rank ==
    IF pc = "loop" THEN 2 * (size * size - round_num) + 3
    ELSE IF pc = "execute" THEN 2 * (size * size - round_num) + 2
    ELSE IF pc = "over" THEN 1
    ELSE 0

\* the turn loop can take a next step: the game is over, or a strategy is to
\* return a move, or some input of the human at the prompt is accepted
CanProgress ==
    pc = "loop" =>
        \/ Len(allowed) = 0
        \/ (IF current = "A" THEN ctrl_A ELSE ctrl_B)[1] # "human"
        \/ \E raw \in RawInputs :
              /\ raw.text \notin {"menu", "exit"}
              /\ human_check(size, board, last_pos, parse_move_input(raw)) = ""

\* C7 amended: the round counter never exceeds size*size and the turn loop ends:
\* at the first turn and after every executed move a next step is possible,
\* every step but the new prompt after a rejected input brings the end nearer
\* (Rank decreases and is never negative), and the loop ends in Terminated
\* unless a human types Menu or Exit at a move prompt.
C7_TerminatesUnlessLeft ==
    [][Started =>
          /\ round_num <= size * size /\ round_num' <= size' * size'
          /\ round_num = 0 => CanProgress
          /\ pc = "execute" => CanProgress'
          /\ pc' \notin {"loop", "execute"} => (Terminated' \/ Left')
          /\ Rank' < Rank \/ (msg' # "" /\ UNCHANGED <<pc, round_num>>)
          /\ Rank' >= 0]_vars

\* C7 witness: a game on a 3x3 board is over after size*size moves
C7_Witness ==
    /\ Terminated /\ size = 3 /\ round_num = size * size

\* C8: the round counter is the number of removed cells, and each side's score
\* is the sum of the values of exactly the cells that side removed.
C8_RoundsAndScores ==
    Started =>
        /\ round_num = Cardinality(Removed)
        /\ {p \in Positions(size) : taken[p] # ""} = Removed
        /\ a_score = SumOver(grid0, {p \in Positions(size) : taken[p] = "A"})
        /\ b_score = SumOver(grid0, {p \in Positions(size) : taken[p] = "B"})

\* C8 witness: between two turns, after both sides have scored
C8_Witness ==
    /\ pc = "loop" /\ round_num >= 3 /\ a_score > 0 /\ b_score > 0
    /\ a_score # b_score

\* C9: over any step of a game, a strategy's evaluation included, a removed cell
\* stays removed, a cell that holds a value keeps it or is removed, and the
\* shape of the grid stays the same.
C9_RemovedStaysRemoved ==
    [][Started =>
          /\ size' = size
          /\ DOMAIN board' = DOMAIN board
          /\ \A p \in Positions(size) :
                /\ board[p] = None => board'[p] = None
                /\ board[p] # None => board'[p] \in {None, board[p]}]_vars

\* C9 witness: between two turns of a game played by a strategy that simulates
\* removals, with cells removed and cells left
C9_Witness ==
    /\ pc = "loop" /\ mode = "C_VS_C" /\ ctrl_A[2] = "MinimizeOpponentOptions"
    /\ round_num >= 2 /\ Removed # Positions(size)

\* C10: a game starts with the configured start player and no previous move;
\* the player to move after n moves is the start player when n is even and the
\* other player when n is odd, and after a move the previous-move position is
\* the position just played, played by the player who is not to move.
C10_Alternation ==
    Started =>
        /\ round_num = 0 => (current = config.start_player /\ last_pos = None)
        /\ current = IF round_num % 2 = 0 THEN config.start_player
                     ELSE Other(config.start_player)
        /\ round_num > 0 =>
              /\ last_pos = last_removed_pos
              /\ board[last_pos] = None
              /\ taken[last_pos] = Other(current)

\* C10 witness: three moves into a game that B started, A is to move
C10_Witness ==
    /\ pc = "loop" /\ round_num = 3 /\ config.start_player = "B" /\ current = "A"

\* C11: once a game has terminated the reported winner is Tie exactly when the
\* final scores are equal, A exactly when A's score is strictly higher and B
\* exactly when B's score is strictly higher, the final scores being the sums of
\* the values each side removed; until then no winner is reported.
C11_WinnerByScore ==
    Started =>
        /\ Terminated =>
              /\ winner \in {"A", "B", "Tie"}
              /\ winner = "Tie" <=> a_score = b_score
              /\ winner = "A" <=> a_score > b_score
              /\ winner = "B" <=> b_score > a_score
              /\ a_score = SumOver(grid0, {p \in Positions(size) : taken[p] = "A"})
              /\ b_score = SumOver(grid0, {p \in Positions(size) : taken[p] = "B"})
        /\ pc \in {"loop", "execute"} => winner = "None"
        /\ pc \in {"over", "returned"} => Terminated

\* C11 witness: a summary was returned for a game that both sides scored in and
\* that ended in a tie
C11_Witness ==
    /\ pc = "returned" /\ winner = "Tie" /\ a_score > 0 /\ a_score = b_score

\* a summary was returned for a game that B won
C11_WitnessB ==
    /\ pc = "returned" /\ winner = "B" /\ b_score > a_score /\ a_score > 0

----------------------------------------------------------------------------
(* Properties of the strategies and of the construction *)

\* the enumeration order of the legal set: row by row over the whole grid when
\* there is no previous move, else the previous move's row from left to right
\* and then its column from top to bottom
LegalOrder(sz, b, lp) ==
    LET cells == IF lp = None THEN RowMajor(sz)
                 ELSE [i \in 1..sz |-> <<lp[1], i - 1>>]
                      \o SelectSeq([i \in 1..sz |-> <<i - 1, lp[2]>>],
                                   LAMBDA p : p # <<lp[1], lp[2]>>)
    IN SelectSeq(cells, LAMBDA p : p \in LegalSet(sz, b, lp))

\* C12: Greedy, called on a non-empty legal set, returns a position of the
\* legal set whose value is the maximum over the legal set, and among the
\* positions that hold the maximum the first in the enumeration order.
C12_GreedyFirstMax ==
    [][(call' = "Greedy" /\ LegalSet(size, board, last_pos') # {})
          => LET legal == LegalOrder(size, board, last_pos')
             IN /\ err' = "None"
                /\ move' \in LegalSet(size, board, last_pos')
                /\ \A p \in LegalSet(size, board, last_pos') : board[p][1] <= board[move'][1]
                /\ \E i \in 1..Len(legal) :
                      /\ legal[i] = move'
                      /\ \A j \in 1..(i - 1) : board[legal[j]][1] < board[move'][1]]_vars

\* C12 witness: Greedy returned a position that is not the first of the
\* enumeration while a later position holds the same, maximal, value
C12_Witness ==
    /\ StrategyCalled /\ call = "Greedy" /\ err = "None"
    /\ LET legal == LegalOrder(size, board, last_pos)
       IN \E i, j \in 1..Len(legal) :
             /\ 1 < i /\ i < j
             /\ legal[i] = move
             /\ board[legal[j]] = board[move]

\* the game on the 3x3 preset board 1..9 that player A starts
Preset19 == <<1, 2, 3, 4, 5, 6, 7, 8, 9>>
OnPreset19 ==
    /\ Started /\ size = 3 /\ config.preset_board = <<Preset19>>
    /\ config.start_player = "A"

\* C13: on the 3x3 preset board 1..9 with start player A, after the opening
\* move at (0,0), which takes the value 1, the legal set is exactly
\* {(0,1), (0,2), (1,0), (2,0)} and Greedy applied to that state picks (2,0),
\* which holds 7; when B is played by Greedy that is the move B makes.
C13_OpeningThenGreedy ==
    /\ (OnPreset19 /\ round_num = 1 /\ last_pos = <<0, 0>>) =>
          /\ val_now = <<1>> /\ a_score = 1 /\ b_score = 0 /\ current = "B"
          /\ SeqSet(allowed) = {<<0, 1>>, <<0, 2>>, <<1, 0>>, <<2, 0>>}
          /\ LET res == run_strategy("Greedy", size, board, last_pos)
             IN /\ res.err = "None"
                /\ res.pos = <<2, 0>>
                /\ get_value(board, res.pos) = <<7>>
          /\ (pc = "execute" /\ ctrl_B = <<"computer", "Greedy">>) => move = <<2, 0>>
    /\ (OnPreset19 /\ round_num = 2 /\ taken[<<0, 0>>] = "A"
           /\ ctrl_B = <<"computer", "Greedy">>) =>
          /\ last_pos = <<2, 0>> /\ val_now = <<7>>
          /\ a_score = 1 /\ b_score = 7

\* C13 witness: in that game, B being played by Greedy, B has answered the
\* opening move at (0,0) with (2,0) and scored 7
C13_Witness ==
    /\ OnPreset19 /\ round_num = 2 /\ taken[<<0, 0>>] = "A"
    /\ ctrl_B = <<"computer", "Greedy">>
    /\ last_pos = <<2, 0>> /\ b_score = 7

\* C14: the turn loop computes the legal set before it asks for a move: it
\* leaves through its break, with no error, exactly when the legal set is
\* empty, so a human is prompted and a strategy is invoked only on a non-empty
\* legal set, a strategy always returns a move of that set, and the error of a
\* strategy that finds no legal move never occurs in a game.
C14_LegalSetCheckedFirst ==
    [][Started =>
          /\ pc = "loop" =>
                /\ pc' = "over" <=> LegalSet(size, board, last_pos) = {}
                /\ pc' = "over" => (err' = "None" /\ board' = board /\ move' = move)
                /\ pc' # "over" =>
                      /\ pc' \in {"loop", "execute", "menu", "exit"}
                      /\ pc' = "execute" => move' \in LegalSet(size, board, last_pos)
          /\ pc' # "raised"
          /\ err' \notin {"ValueError", "RuntimeError"}]_vars

\* C14 witness: a game between two strategies ended through the break of the
\* turn loop, without an error, while cells were left on the board
C14_Witness ==
    /\ pc = "over" /\ mode = "C_VS_C" /\ err = "None"
    /\ round_num >= 2 /\ Removed # Positions(size)
    /\ LegalSet(size, board, last_pos) = {}

\* C15: each of the four strategies, called on a board and previous move (or
\* none) whose legal set is empty, fails (the ValueError "No allowed moves for
\* strategy", which stands for NoLegalMoveError), returns no position and
\* leaves the grid and the last removed position as they were.
C15_StrategyFailsOnEmpty ==
    [][(call' \in STRATEGY_REGISTRY /\ LegalSet(size, board, last_pos') = {})
          => /\ err' = "ValueError"
             /\ move' = None
             /\ board' = board
             /\ last_removed_pos' = last_removed_pos]_vars

\* C15 witness: a lookahead strategy failed after a previous move whose row and
\* column are empty while the board still holds cells
C15_Witness ==
    /\ StrategyCalled /\ call = "PreserveHighValues" /\ err = "ValueError"
    /\ last_pos # None /\ Removed # Positions(size)
    /\ LegalSet(size, board, last_pos) = {} /\ move = None

\* C16: a board constructed from a preset whose length differs from size*size
\* fails (the ValueError that stands for ConfigurationError): there is no
\* board and no game; with exactly size*size values the grid as constructed
\* holds, in row r and column c, the preset's value number r*size + c + 1.
C16_PresetLength ==
    config.preset_board # None =>
        LET preset == config.preset_board[1]
        IN IF Len(preset) # size * size
           THEN /\ err = "ValueError" /\ pc = "raised"
                /\ board = None /\ grid0 = None
                /\ ~Started /\ round_num = 0
           ELSE /\ DOMAIN grid0 = Positions(size)
                /\ \A r \in 0..(size - 1), c \in 0..(size - 1) :
                      grid0[<<r, c>>] = <<preset[r * size + c + 1]>>
                /\ round_num = 0 => board = grid0

\* C16 witness: the construction of a 3x3 board from four preset values failed
C16_Witness ==
    /\ size = 3 /\ config.preset_board # None /\ Len(config.preset_board[1]) = 4
    /\ err = "ValueError" /\ pc = "raised" /\ board = None

\* a 3x3 board was constructed from nine preset values, row by row
C16_WitnessBuilt ==
    /\ size = 3 /\ config.preset_board = <<Preset19>>
    /\ grid0[<<0, 2>>] = <<3>> /\ grid0[<<1, 0>>] = <<4>> /\ grid0[<<2, 0>>] = <<7>>

\* C17: a game constructed with a size below 2 fails at construction (the
\* ValueError that stands for ConfigurationError): no game is started and no
\* turn is played on such a board.
C17_SmallSizeRejected ==
    size < 2 =>
        /\ err = "ValueError" /\ pc = "raised"
        /\ ~Started
        /\ round_num = 0 /\ winner = "None"

\* a game on a 1x1 board was played to its end and its summary returned
C17_SmallGamePlayed ==
    /\ size = 1 /\ pc = "returned" /\ round_num = 1 /\ winner = "A" /\ a_score = 7

\* the grid was constructed, whatever happened to the game afterwards
BoardBuilt == init_board(config.size, config.seed, config.preset_board).err = "None"

\* C18 as stated: on seeded and on preset boards alike every cell holds an
\* integer of 1..9 or the removed marker.
C18_CellsOneToNine ==
    BoardBuilt =>
        \A p \in Positions(size) : board[p] = None \/ board[p][1] \in 1..9

\* C18 amended: every cell holds the removed marker or the integer it was
\* constructed with; on a board built from a seed that integer is in 1..9, on a
\* board built from a preset it is the preset's integer for that cell, whatever
\* its value.
C18_CellsAsConstructed ==
    BoardBuilt =>
        /\ DOMAIN board = Positions(size)
        /\ \A p \in Positions(size) :
              \/ board[p] = None
              \/ /\ board[p] = grid0[p]
                 /\ Len(board[p]) = 1
                 /\ board[p][1] \in Int
                 /\ IF config.preset_board = None
                    THEN board[p][1] \in 1..9
                    ELSE board[p][1] = config.preset_board[1][p[1] * size + p[2] + 1]

\* C18 witness: a game on a seeded 3x3 board with cells removed and cells left
C18_Witness ==
    /\ Started /\ config.preset_board = None /\ size = 3
    /\ pc = "loop" /\ round_num >= 2 /\ Removed # Positions(size)

\* a game on a preset board that holds a 0 has had its 0 removed
C18_WitnessZero ==
    /\ Started /\ config.preset_board # None /\ round_num >= 1
    /\ \E p \in Removed : grid0[p] = <<0>>

----------------------------------------------------------------------------
(* Properties of the human branch *)

\* the turn loop is at the turn of a human player
HumanTurn ==
    /\ pc = "loop"
    /\ (IF current = "A" THEN ctrl_A ELSE ctrl_B)[1] = "human"

\* the turn loop is at the prompt of a human player
HumanToMove == HumanTurn /\ LegalSet(size, board, last_pos) # {}

\* C19: a human move is accepted only if it is in bounds, available and, after
\* a previous move, in that move's row or column: every accepted human move is
\* a member of the legal set, the same set a strategy called in that state
\* chooses from.
C19_HumanMoveAccepted ==
    [][(Started /\ HumanToMove /\ pc' = "execute")
          => /\ in_bounds(size, move')
             /\ is_available(size, board, move')
             /\ last_pos # None => (move'[1] = last_pos[1] \/ move'[2] = last_pos[2])
             /\ move' \in LegalSet(size, board, last_pos)
             /\ move' \in SeqSet(allowed_for(size, board, last_pos))
             /\ board' = board /\ msg' = ""]_vars

\* C19 witness: in a game between two humans a move was accepted after a
\* previous move whose row and column hold only some of the cells left
C19_Witness ==
    /\ pc = "execute" /\ mode = "H_VS_H" /\ last_pos # None /\ msg = ""
    /\ move \in LegalSet(size, board, last_pos)
    /\ Cardinality(LegalSet(size, board, last_pos))
          < Cardinality(Positions(size) \ Removed)

\* the messages of the human branch
Rejections == {"Invalid format", "Out of bounds", "Cell already taken",
               "Must choose from same row or column"}

\* C20: a rejected human input (bad format, out of bounds, already removed, or
\* outside the row and column of the previous move) is not fatal and changes
\* nothing: the board, the scores, the round counter, the previous-move
\* position, the current player and the pending move are unchanged, no error
\* is raised and the same player is at the prompt again; an accepted input
\* prints no rejection.
C20_RejectedChangesNothing ==
    [][Started =>
          /\ msg' # "" =>
                /\ msg' \in Rejections
                /\ HumanTurn /\ HumanTurn'
                /\ pc' = "loop" /\ err' = "None"
                /\ UNCHANGED <<size, board, last_removed_pos, a_score, b_score, round_num,
                               last_pos, current, move, val_now, winner, ctrl_A, ctrl_B>>
                /\ msg' = "Must choose from same row or column" => last_pos # None
                /\ msg' = "Cell already taken" => Removed # {}
          /\ (HumanTurn /\ pc' = "execute") => msg' = ""]_vars

\* C20 witness: in the middle of a game a human input outside the row and
\* column of the previous move was rejected and the player is at the prompt
C20_Witness ==
    /\ HumanToMove /\ round_num >= 2 /\ err = "None"
    /\ msg = "Must choose from same row or column"

\* rejections of the three other kinds
C20_WitnessOthers ==
    /\ HumanToMove /\ round_num >= 1
    /\ msg \in {"Invalid format", "Out of bounds", "Cell already taken"}

----------------------------------------------------------------------------
(* Properties of max_remaining_value and of the lookahead strategies *)

\* the values of the cells that are left on grid b
ValuesLeft(sz, b) == {b[p][1] : p \in {q \in Positions(sz) : b[q] # None}}

\* the largest element of a non-empty set of integers
MaxOf(S) == CHOOSE x \in S : \A y \in S : y <= x

\* C21: max_remaining_value returns 0 when no cell is left on the board and
\* otherwise the maximum of the values of the cells that are left, on every
\* board that is reached.
C21_MaxRemaining ==
    max_remaining_value(size, board)
        = IF ValuesLeft(size, board) = {} THEN 0 ELSE MaxOf(ValuesLeft(size, board))

\* what max_remaining_value returns: the largest of 0 and the values left
MaxRemainingAsComputed ==
    max_remaining_value(size, board) = MaxOf(ValuesLeft(size, board) \cup {0})

\* key k1 is lexicographically greater than key k2 of the same length
LexGreater(k1, k2) ==
    \E i \in 1..Len(k1) : k1[i] > k2[i] /\ \A j \in 1..(i - 1) : k1[j] = k2[j]

\* number i is the first of the sequence keys that no other key exceeds
IsFirstMax(keys, i) ==
    /\ i \in 1..Len(keys)
    /\ \A j \in 1..Len(keys) : ~LexGreater(keys[j], keys[i])
    /\ \A j \in 1..(i - 1) : LexGreater(keys[i], keys[j])

\* the legal replies of the opponent once candidate p is removed from grid b
Replies(sz, b, p) == LegalSet(sz, [b EXCEPT ![p] = None], p)

\* the smallest element of a non-empty set of integers
LeastOf(S) == CHOOSE x \in S : \A y \in S : x <= y

\* the pair (v - m, v) of candidate p: v its value, m the least value among the
\* opponent's replies, 0 when there is none
FutureMinKey(sz, b, p) ==
    LET v == b[p][1]
        replies == Replies(sz, b, p)
        m == IF replies = {} THEN 0 ELSE LeastOf({b[q][1] : q \in replies})
    IN <<v - m, v>>

\* C22: MaximizeFutureMin, called on a non-empty legal set, returns the first
\* candidate of the enumeration order whose pair (v - m, v) is lexicographically
\* maximal.
C22_FutureMinFirstBest ==
    [][(call' = "MaximizeFutureMin" /\ LegalSet(size, board, last_pos') # {})
          => /\ err' = "None"
             /\ \A legal \in {LegalOrder(size, board, last_pos')} :
                \A keys \in {[i \in 1..Len(legal) |->
                                 FutureMinKey(size, board, legal[i])]} :
                   \E i \in 1..Len(legal) : legal[i] = move' /\ IsFirstMax(keys, i)]_vars

\* C22 witness: MaximizeFutureMin returned a candidate that is neither the first
\* of the enumeration nor one of the largest value, another candidate having
\* the same pair
C22_Witness ==
    /\ StrategyCalled /\ call = "MaximizeFutureMin" /\ err = "None"
    /\ LET legal == LegalOrder(size, board, last_pos)
       IN /\ legal[1] # move
          /\ \E q \in LegalSet(size, board, last_pos) : board[q][1] > board[move][1]
          /\ \E q \in LegalSet(size, board, last_pos) \ {move} :
                FutureMinKey(size, board, q) = FutureMinKey(size, board, move)

\* the pair (-count, v) of candidate p: count the number of the opponent's
\* replies, v the candidate's value
MinOptionsKey(sz, b, p) == <<0 - Cardinality(Replies(sz, b, p)), b[p][1]>>

\* C23: MinimizeOpponentOptions, called on a non-empty legal set, returns a
\* candidate that leaves the opponent the fewest replies, among those one of
\* the highest value, and among those the first of the enumeration order.
C23_MinOptionsFirstBest ==
    [][(call' = "MinimizeOpponentOptions" /\ LegalSet(size, board, last_pos') # {})
          => /\ err' = "None"
             /\ \A legal \in {LegalOrder(size, board, last_pos')} :
                \A keys \in {[i \in 1..Len(legal) |->
                                 MinOptionsKey(size, board, legal[i])]} :
                   /\ \E i \in 1..Len(legal) : legal[i] = move' /\ IsFirstMax(keys, i)
                   /\ \A i \in 1..Len(legal) :
                         Cardinality(Replies(size, board, move')) <= 0 - keys[i][1]]_vars

\* C23 witness: MinimizeOpponentOptions returned a candidate that is not the
\* first of the enumeration and leaves fewer replies than a candidate of higher
\* value
C23_Witness ==
    /\ StrategyCalled /\ call = "MinimizeOpponentOptions" /\ err = "None"
    /\ LegalOrder(size, board, last_pos)[1] # move
    /\ \E q \in LegalSet(size, board, last_pos) :
          /\ board[q][1] > board[move][1]
          /\ Cardinality(Replies(size, board, q)) > Cardinality(Replies(size, board, move))

\* the triple (-exposes, -hits, v) of candidate p for the maximum gmax: hits the
\* number of the opponent's replies that hold gmax, exposes 1 when hits > 0
PreserveKey(sz, b, p, gmax) ==
    LET hits == Cardinality({q \in Replies(sz, b, p) : b[q][1] = gmax})
    IN <<0 - (IF hits > 0 THEN 1 ELSE 0), 0 - hits, b[p][1]>>

\* the maximum of the values left on grid b, 0 when none is left
GlobalMax(sz, b) == IF ValuesLeft(sz, b) = {} THEN 0 ELSE MaxOf(ValuesLeft(sz, b))

\* C24: PreserveHighValues, called on a non-empty legal set, returns the first
\* candidate of the enumeration order whose triple (-exposes, -hits, v) is
\* lexicographically maximal, hits counting the replies that hold the global
\* maximum of the values left on the board before any candidate is simulated.
C24_PreserveFirstBest ==
    [][(call' = "PreserveHighValues" /\ LegalSet(size, board, last_pos') # {})
          => /\ err' = "None"
             /\ \A legal \in {LegalOrder(size, board, last_pos')} :
                \A keys \in {[i \in 1..Len(legal) |->
                                 PreserveKey(size, board, legal[i],
                                             GlobalMax(size, board))]} :
                   \E i \in 1..Len(legal) : legal[i] = move' /\ IsFirstMax(keys, i)]_vars

\* what PreserveHighValues returns: the first candidate whose triple is
\* maximal, hits counting the replies that hold the value max_remaining_value
\* returned for the board before any candidate is simulated
PreserveAsComputed ==
    [][(call' = "PreserveHighValues" /\ LegalSet(size, board, last_pos') # {})
          => /\ err' = "None"
             /\ \A legal \in {LegalOrder(size, board, last_pos')} :
                \A keys \in {[i \in 1..Len(legal) |->
                                 PreserveKey(size, board, legal[i],
                                             max_remaining_value(size, board))]} :
                   \E i \in 1..Len(legal) : legal[i] = move' /\ IsFirstMax(keys, i)]_vars

\* the same with the maximum computed again for every candidate, on the board
\* without the candidate: not what PreserveHighValues does
PreservePerCandidate ==
    [][(call' = "PreserveHighValues" /\ LegalSet(size, board, last_pos') # {})
          => \A legal \in {LegalOrder(size, board, last_pos')} :
                \A keys \in {[i \in 1..Len(legal) |->
                                 PreserveKey(size, board, legal[i],
                                     max_remaining_value(size,
                                         [board EXCEPT ![legal[i]] = None]))]} :
                   \E i \in 1..Len(legal) : legal[i] = move' /\ IsFirstMax(keys, i)]_vars

----------------------------------------------------------------------------
(* Properties of the start and of the end of start_game *)

\* the strategy names the mode binds a computer player to
BoundNames ==
    IF mode = "C_VS_C" THEN {config.a_strategy, config.b_strategy}
    ELSE IF mode = "H_VS_C" THEN {config.b_strategy}
    ELSE {}

\* C26: the lookup of a strategy by a name that is not registered fails (the
\* ValueError that stands for ConfigurationError) and yields no strategy; a
\* game whose mode binds a computer player to such a name fails before the
\* turn loop: no controller is set, no move is played, the board is as built.
C26_UnknownStrategyFails ==
    /\ \A name \in UnknownNames :
          get_strategy(name) = [err |-> "ValueError", strat |-> "None"]
    /\ BoundNames \cap UnknownNames # {} =>
          /\ err = "ValueError" /\ pc = "raised"
          /\ ~Started
          /\ round_num = 0 /\ a_score = 0 /\ b_score = 0
          /\ move = None /\ last_pos = None
          /\ board = grid0

\* C26 witness: a game between two strategies on a 3x3 board that was built,
\* whose second strategy name is not registered, has failed
C26_Witness ==
    /\ mode = "C_VS_C" /\ size = 3 /\ BoardBuilt
    /\ config.a_strategy \in STRATEGY_REGISTRY /\ config.b_strategy \in UnknownNames
    /\ pc = "raised" /\ err = "ValueError"

\* a name that is not registered and that the mode does not bind is never
\* looked up: the game is played
UnboundNamePlayed ==
    /\ mode = "H_VS_C" /\ config.a_strategy \in UnknownNames
    /\ pc = "returned" /\ round_num >= 4

\* C27: when the user types Menu at a move prompt in the middle of a game,
\* start_game returns None to its caller: the call ends and no exception
\* leaves it.
C27_MenuReturnsNone ==
    (Started /\ pc = "menu" /\ winner = "None" /\ round_num >= 1) => err = "None"

\* Menu was typed at a move prompt in the middle of a game: start_game was left
\* by the KeyboardInterrupt of _guarded_input
MenuRaised ==
    /\ Started /\ pc = "menu" /\ winner = "None" /\ round_num >= 1
    /\ err = "KeyboardInterrupt"

----------------------------------------------------------------------------
(* Properties of the enumeration and of the bookkeeping of a game *)

\* C28: for every board and every position lp of a previous move the legal set
\* is enumerated without repetition, the available cells of lp's row first, by
\* increasing column, then the available cells of lp's column, by increasing
\* row.
C28_RowThenColumn ==
    \A lp \in Positions(size) :
       \A s \in {get_allowed_positions(size, board, lp)} :
          /\ SeqSet(s) = LegalSet(size, board, lp)
          /\ \A i, j \in 1..Len(s) :
                i < j =>
                   /\ s[i] # s[j]
                   /\ s[j][1] = lp[1] => (s[i][1] = lp[1] /\ s[i][2] < s[j][2])
                   /\ s[i][1] # lp[1] =>
                         /\ s[j][1] # lp[1]
                         /\ s[i][2] = lp[2] /\ s[j][2] = lp[2]
                         /\ s[i][1] < s[j][1]

\* C28 witness: after a removal in the middle of a 3x3 board the legal set has
\* two cells of the row followed by two cells of the column
C28_Witness ==
    /\ pc = "driver" /\ size = 3 /\ last_removed_pos = <<1, 1>>
    /\ get_allowed_positions(size, board, last_removed_pos)
          = <<<<1, 0>>, <<1, 2>>, <<0, 1>>, <<2, 1>>>>

\* C29: at every point of a game, between turns and after it is over, the two
\* scores and the values still on the board add up to the sum of the values of
\* the board as it was constructed.
C29_ValueConserved ==
    Started =>
        a_score + b_score + SumOver(board, Positions(size) \ Removed)
            = SumOver(grid0, Positions(size))

\* C29 witness: between two turns of a game against a strategy, both sides
\* having scored twice and values being left on the board
C29_Witness ==
    /\ pc = "loop" /\ mode = "H_VS_C" /\ round_num >= 4
    /\ a_score > 0 /\ b_score > 0
    /\ SumOver(board, Positions(size) \ Removed) > 0

\* C30: at every point of a game the position the board records as removed last
\* is the previous-move position of the turn loop; both are absent exactly
\* before the opening move, and a strategy's evaluation, which simulates
\* removals, leaves the record as it was.
C30_LastRemovedIsLastPos ==
    Started =>
        /\ last_removed_pos = last_pos
        /\ last_pos = None <=> round_num = 0
        /\ pc = "execute" => move # None

\* C30 witness: a strategy that simulates removals has just chosen a move other
\* than the previous one, which is still the recorded one
C30_Witness ==
    /\ pc = "execute" /\ round_num >= 2
    /\ (IF current = "A" THEN ctrl_A ELSE ctrl_B) = <<"computer", "PreserveHighValues">>
    /\ last_removed_pos = last_pos /\ last_pos # None /\ move # last_pos

\* C31: when a game on a board of size >= 1 has terminated, a last move was
\* played, every cell of its row and of its column has been removed, and at
\* least 2*size - 1 rounds were played.
C31_RowAndColumnExhausted ==
    (Started /\ Terminated /\ size >= 1) =>
        /\ last_pos # None
        /\ \A p \in Positions(size) :
              (p[1] = last_pos[1] \/ p[2] = last_pos[2]) => board[p] = None
        /\ round_num >= 2 * size - 1

\* C31 witness: a game on a 3x3 board terminated after six rounds, with three
\* values left on the board
C31_Witness ==
    /\ Terminated /\ size = 3 /\ round_num = 6
    /\ Cardinality(Positions(size) \ Removed) = 3

----------------------------------------------------------------------------
(* The flag of PreserveHighValues *)

\* the pair (-hits, v) of candidate p for the maximum gmax
HitsKey(sz, b, p, gmax) ==
    <<PreserveKey(sz, b, p, gmax)[2], PreserveKey(sz, b, p, gmax)[3]>>

\* C33: PreserveHighValues, called on a non-empty legal set, returns the
\* position that ranking the candidates by the pair (-hits, v) alone returns,
\* the first of the maximal ones, hits counting the replies that hold the value
\* max_remaining_value returned before any candidate is simulated: the flag
\* "exposes" never changes the choice.
C33_FlagIsRedundant ==
    [][(call' = "PreserveHighValues" /\ LegalSet(size, board, last_pos') # {})
          => /\ err' = "None"
             /\ \A legal \in {LegalOrder(size, board, last_pos')} :
                \A keys \in {[i \in 1..Len(legal) |->
                                 HitsKey(size, board, legal[i],
                                         max_remaining_value(size, board))]} :
                   \E i \in 1..Len(legal) : legal[i] = move' /\ IsFirstMax(keys, i)]_vars

\* C33 witness: PreserveHighValues has chosen among candidates of which one
\* exposes the maximum to the opponent and another, of higher value, does not
C33_Witness ==
    /\ pc = "called" /\ call = "PreserveHighValues" /\ err = "None" /\ size = 3
    /\ last_pos # None
    /\ \A gmax \in {max_remaining_value(size, board)} :
          \E p, q \in LegalSet(size, board, last_pos) :
             /\ PreserveKey(size, board, p, gmax)[1] = -1
             /\ PreserveKey(size, board, q, gmax)[1] = 0
             /\ board[p][1] < board[q][1]
             /\ move = q

----------------------------------------------------------------------------
(* Configurations saved by the configuration menu *)

\* the configuration is one the menu saves: its strategies are Human or names
\* of the strategy submenu, and the save validation accepts it
SavedByMenu ==
    /\ config.a_strategy \in STRATEGY_REGISTRY \cup {"None"}
    /\ config.b_strategy \in STRATEGY_REGISTRY \cup {"None"}
    /\ save_validation(config.mode, config.a_strategy, config.b_strategy)

\* C34: start_game, given a configuration that the menu saves and whose board
\* can be built, resolves both controllers and raises no error; in H_VS_C the
\* player without a strategy is the human one, be it A or B.
C34_SavedConfigStarts ==
    (SavedByMenu /\ BoardBuilt) =>
        /\ Started
        /\ err = "None"
        /\ config.a_strategy = "None" <=> ctrl_A[1] = "human"
        /\ config.b_strategy = "None" <=> ctrl_B[1] = "human"

\* what start_game does with the configurations the menu saves: it starts them
\* when A is the human of H_VS_C, or when the mode is not H_VS_C
SavedConfigStartsWhenBPlays ==
    (SavedByMenu /\ BoardBuilt /\ (config.mode = "H_VS_C" => config.a_strategy = "None")) =>
        /\ Started
        /\ config.a_strategy = "None" <=> ctrl_A[1] = "human"
        /\ config.b_strategy = "None" <=> ctrl_B[1] = "human"

\* a saved H_VS_C configuration in which B is the human was refused
SavedConfigRefused ==
    /\ SavedByMenu /\ BoardBuilt /\ config.mode = "H_VS_C"
    /\ config.a_strategy = "Greedy" /\ config.b_strategy = "None"
    /\ pc = "raised" /\ err = "ValueError"

\* the stored manual board is absent: None, or the empty list, which the menu
\* and save_config treat as None
ManualBoardAbsent == ~truthy(state.preset_board_raw)

\* the same with only None counted as absent: fails from size 0, whose manual
\* board is the empty list, which a size change does not clear
ManualBoardNoneOrFits ==
    pc \in {"config_menu", "saved", "cancelled", "raised"} =>
        \/ state.preset_board_raw = None
        \/ Len(state.preset_board_raw[1]) = config.size * config.size

\* C35: in the configuration menu, started with a stored manual board that is
\* absent or has size*size values, after any sequence of size changes, source
\* choices, manual boards set or cleared and seeds set, the stored manual board
\* is absent or has exactly size*size values for the current size.
C35_ManualBoardFitsSize ==
    pc \in {"config_menu", "saved", "cancelled", "raised"} =>
        \/ ManualBoardAbsent
        \/ Len(state.preset_board_raw[1]) = config.size * config.size

\* C35 witness: the menu was opened on a 2x2 manual board, and now holds size 3
\* with a manual board of nine values and a seed
C35_Witness ==
    /\ pc = "saved" /\ config.size = 3
    /\ config.preset_board # None /\ Len(config.preset_board[1]) = 4
    /\ state.board_source = "MANUAL" /\ state.seed_raw # None
    /\ state.preset_board_raw # None /\ Len(state.preset_board_raw[1]) = 9

====
